---- MODULE Spec2Model ----
(***************************************************************************)
(* Models of four of the repository's pattern examples:                    *)
(*   - src/src/state.rs                       (Post and its State objects) *)
(*   - src/src/singleton.rs                   (get_instance)               *)
(*   - src/rust/src/flyweight.rs              (Menu, CheeseBrand, shops)   *)
(*   - src/rust/src/chain_of_responsibility.rs (process_request)           *)
(* The examples are independent programs, so each has its own              *)
(* specification; the variables of the other examples stay at their        *)
(* initial values.                                                         *)
(***************************************************************************)
EXTENDS Integers, Sequences, FiniteSets, TLC

VARIABLES
    \* state.rs
    post,       \* the Post: [state, content]
    postLog,    \* history of the calls made on the post
    \* singleton.rs
    once,       \* the state of the static ONCE
    SINGLETON,  \* the static raw pointer: 0 is null, else an index into boxes
    boxes,      \* heap: the Box<SingletonReader> allocations, each [inner |-> arc]
    arcs,       \* heap: the Arc<Mutex<u8>> allocations, each [value, owner]
    pc,         \* each thread's position
    handle,     \* each thread's SingletonReader (its inner arc; 0: none yet)
    made,       \* each thread's local `singleton` inside the closure
    readVal,    \* the value each thread last read under the lock
    gets,       \* number of get_instance calls each thread has started
    sing,       \* history: [initRuns, nullDeref, waited, lastWritten, lastWriter,
                \*           incs]
    \* flyweight.rs
    menus,      \* heap: the Menu objects, each its items map (name -> CheeseBrand)
    shops,      \* the CheeseShops: [menu, units_sold, revenue]
    shopCall,   \* the last call made on a shop, with its result
    shopOps,    \* number of calls made on the shops
    stocker,    \* history: the shop that last stocked each cheese of each menu
    \* chain_of_responsibility.rs
    chain,      \* the handlers from the head on; each one's successor is the next
    request,    \* the PurchaseRequest: [amount, purpose]
    chainPc,    \* "ready", "processing" or "done"
    cur,        \* the handler whose process_request is running (0: none)
    reply,      \* the String process_request returns, once done
    handledBy,  \* history: the handlers that approved the request
    forwarded   \* history: the handlers that passed the request on

postVars == <<post, postLog>>
singVars == <<once, SINGLETON, boxes, arcs, pc, handle, made, readVal, gets, sing>>
shopVars == <<menus, shops, shopCall, shopOps, stocker>>
chainVars == <<chain, request, chainPc, cur, reply, handledBy, forwarded>>
vars == <<postVars, singVars, shopVars, chainVars>>
notPost == <<singVars, shopVars, chainVars>>
notSing == <<postVars, shopVars, chainVars>>
notShop == <<postVars, singVars, chainVars>>
notChain == <<postVars, singVars, shopVars>>

-----------------------------------------------------------------------------
(* state.rs *)

\* Bound: number of calls made on one Post.
MaxCalls == 4

\* Strings are sequences of characters; the texts handed to add_text.
Texts == {<<>>, <<"a">>, <<"b">>, <<"a", "b">>}

\* trait State's default method: content() is "".
StateDefaultContent(p) == <<>>

\* Published overrides content() and returns the post's content.
PublishedContent(p) == p.content

DraftRequestReview == "PendingReview"
DraftApprove_Publishes == "Published"
DraftApprove == "Draft"
PendingReviewRequestReview == "PendingReview"
PendingReviewApprove == "Published"
PublishedRequestReview == "Published"
PublishedApprove == "Published"

\* Dynamic dispatch of State::request_review on the boxed state.
StateRequestReview(s) ==
    CASE s = "Draft" -> DraftRequestReview
      [] s = "PendingReview" -> PendingReviewRequestReview
      [] s = "Published" -> PublishedRequestReview

\* Dynamic dispatch of State::approve on the boxed state.
StateApprove(s) ==
    CASE s = "Draft" -> DraftApprove
      [] s = "PendingReview" -> PendingReviewApprove
      [] s = "Published" -> PublishedApprove

StateContent_PendingShows(s, p) ==
    IF s \in {"Published", "PendingReview"} THEN PublishedContent(p)
    ELSE StateDefaultContent(p)

\* Dynamic dispatch of State::content: only Published overrides the default.
StateContent(s, p) ==
    IF s = "Published" THEN PublishedContent(p) ELSE StateDefaultContent(p)

\* Post::new
PostNew == [state |-> "Draft", content |-> <<>>]

\* Post::content
PostContent(p) == StateContent(p.state, p)

\* String::push_str
PushStr(s, text) == s \o text

PostLogged(op, text, from, to) ==
    postLog' = Append(postLog, [op |-> op, text |-> text, from |-> from, to |-> to])

\* Post::add_text
AddText(text) ==
    /\ Len(postLog) < MaxCalls
    /\ post' = [post EXCEPT !.content = PushStr(post.content, text)]
    /\ PostLogged("add_text", text, post.state, post'.state)
    /\ UNCHANGED notPost

\* Post::request_review
RequestReview ==
    /\ Len(postLog) < MaxCalls
    /\ post' = [post EXCEPT !.state = StateRequestReview(post.state)]
    /\ PostLogged("request_review", <<>>, post.state, post'.state)
    /\ UNCHANGED notPost

\* Post::approve
Approve ==
    /\ Len(postLog) < MaxCalls
    /\ post' = [post EXCEPT !.state = StateApprove(post.state)]
    /\ PostLogged("approve", <<>>, post.state, post'.state)
    /\ UNCHANGED notPost

InitPost ==
    /\ post = PostNew
    /\ postLog = <<>>

RECURSIVE AddedSoFar(_)
\* The texts of the add_text calls of a history, concatenated in call order.
AddedSoFar(log) ==
    IF log = <<>> THEN <<>>
    ELSE LET rest == AddedSoFar(SubSeq(log, 1, Len(log) - 1))
             last == log[Len(log)]
         IN IF last.op = "add_text" THEN rest \o last.text ELSE rest

\* C1: after any sequence of add_text, request_review and approve calls on a
\* new Post, content() is the empty string while the post is a Draft or in
\* PendingReview, and is the concatenation, in call order, of all the text
\* added so far once the post is Published.
C1_ContentByState ==
    /\ post.state \in {"Draft", "PendingReview"} => PostContent(post) = <<>>
    /\ post.state = "Published" => PostContent(post) = AddedSoFar(postLog)

\* C1's case: a published post with text added before and after publication.
C1_Witness ==
    /\ post.state = "Published"
    /\ PostContent(post) = <<"b", "a">>
    /\ \E i \in 1..Len(postLog) :
          postLog[i].op = "add_text" /\ postLog[i].from = "Published"
    /\ \E i \in 1..Len(postLog) :
          postLog[i].op = "add_text" /\ postLog[i].from = "Draft"
             /\ postLog[i].text # <<>>

\* C2: a Post is Published only after a request_review issued on a Draft
\* (Draft to PendingReview) and a later approve issued on a PendingReview
\* (PendingReview to Published); approve on a Draft leaves a Draft,
\* request_review on a PendingReview leaves a PendingReview, and no single
\* call takes a Draft to Published.
C2_PublishedOnlyViaReview ==
    /\ post.state = "Published" =>
          \E i, j \in 1..Len(postLog) :
             /\ i < j
             /\ postLog[i].op = "request_review"
             /\ postLog[i].from = "Draft" /\ postLog[i].to = "PendingReview"
             /\ postLog[j].op = "approve"
             /\ postLog[j].from = "PendingReview" /\ postLog[j].to = "Published"
    /\ \A k \in 1..Len(postLog) :
          /\ postLog[k].op = "approve" /\ postLog[k].from = "Draft"
                => postLog[k].to = "Draft"
          /\ postLog[k].op = "request_review" /\ postLog[k].from = "PendingReview"
                => postLog[k].to = "PendingReview"
          /\ ~(postLog[k].from = "Draft" /\ postLog[k].to = "Published")

\* C2's case: a published post whose history also holds an approve on a Draft
\* and a request_review on a PendingReview.
C2_Witness ==
    /\ post.state = "Published"
    /\ \E k \in 1..Len(postLog) :
          postLog[k].op = "approve" /\ postLog[k].from = "Draft"
    /\ \E k \in 1..Len(postLog) :
          postLog[k].op = "request_review" /\ postLog[k].from = "PendingReview"

-----------------------------------------------------------------------------
(* singleton.rs *)

\* Bounds: number of threads, get_instance calls per thread, and
\* read-modify-write updates in all (the value stays far below u8::MAX).
NumThreads == 2
MaxGets == 2
MaxIncs == 2

Threads == 1..NumThreads

\* The u8 values the threads write under the lock.
Values == {0, 1, 2}

InitSingleton ==
    /\ once = "INCOMPLETE"
    /\ SINGLETON = 0
    /\ boxes = <<>>
    /\ arcs = <<>>
    /\ pc = [t \in Threads |-> "idle"]
    /\ handle = [t \in Threads |-> 0]
    /\ made = [t \in Threads |-> 0]
    /\ readVal = [t \in Threads |-> 0]
    /\ gets = [t \in Threads |-> 0]
    /\ sing = [initRuns |-> 0, nullDeref |-> FALSE,
               waited |-> [t \in Threads |-> FALSE],
               lastWritten |-> 0, lastWriter |-> 0,
               incs |-> 0]

SingNote(f, v) == sing' = [sing EXCEPT ![f] = v]

GetInstanceCallOnce_NoWait(t) ==
    /\ pc[t] = "idle"
    /\ gets[t] < MaxGets
    /\ gets' = [gets EXCEPT ![t] = @ + 1]
    /\ IF once = "INCOMPLETE"
       THEN /\ once' = "RUNNING"
            /\ pc' = [pc EXCEPT ![t] = "init_make"]
       ELSE /\ pc' = [pc EXCEPT ![t] = "deref"]
            /\ UNCHANGED once
    /\ UNCHANGED <<SINGLETON, boxes, arcs, handle, made, readVal, sing>>
    /\ UNCHANGED notSing

GetInstanceCallOnce_EveryCall(t) ==
    /\ pc[t] = "idle"
    /\ gets[t] < MaxGets
    /\ gets' = [gets EXCEPT ![t] = @ + 1]
    /\ pc' = [pc EXCEPT ![t] = "init_make"]
    /\ UNCHANGED <<once, SINGLETON, boxes, arcs, handle, made, readVal, sing>>
    /\ UNCHANGED notSing

\* get_instance, entry into ONCE.call_once: the first caller runs the closure,
\* a caller that arrives while it runs blocks until it has finished, and a
\* caller that arrives after it has finished goes on at once.
GetInstanceCallOnce(t) ==
    /\ pc[t] = "idle"
    /\ gets[t] < MaxGets
    /\ gets' = [gets EXCEPT ![t] = @ + 1]
    /\ CASE once = "INCOMPLETE" ->
              /\ once' = "RUNNING"
              /\ pc' = [pc EXCEPT ![t] = "init_make"]
              /\ UNCHANGED sing
         [] once = "RUNNING" ->
              /\ pc' = [pc EXCEPT ![t] = "once_wait"]
              /\ SingNote("waited", [sing.waited EXCEPT ![t] = TRUE])
              /\ UNCHANGED once
         [] once = "COMPLETE" ->
              /\ pc' = [pc EXCEPT ![t] = "deref"]
              /\ UNCHANGED <<once, sing>>
    /\ UNCHANGED <<SINGLETON, boxes, arcs, handle, made, readVal>>
    /\ UNCHANGED notSing

\* call_once returns to a blocked caller once the closure has finished.
OnceWake(t) ==
    /\ pc[t] = "once_wait"
    /\ once = "COMPLETE"
    /\ pc' = [pc EXCEPT ![t] = "deref"]
    /\ UNCHANGED <<once, SINGLETON, boxes, arcs, handle, made, readVal, gets, sing>>
    /\ UNCHANGED notSing

\* The closure's first statement: SingletonReader { inner: Arc::new(Mutex::new(0)) }
InitMake(t) ==
    /\ pc[t] = "init_make"
    /\ arcs' = Append(arcs, [value |-> 0, owner |-> 0])
    /\ made' = [made EXCEPT ![t] = Len(arcs) + 1]
    /\ SingNote("initRuns", sing.initRuns + 1)
    /\ pc' = [pc EXCEPT ![t] = "init_store"]
    /\ UNCHANGED <<once, SINGLETON, boxes, handle, readVal, gets>>
    /\ UNCHANGED notSing

\* The closure's second statement: SINGLETON = mem::transmute(Box::new(singleton))
InitStore(t) ==
    /\ pc[t] = "init_store"
    /\ boxes' = Append(boxes, [inner |-> made[t]])
    /\ SINGLETON' = Len(boxes) + 1
    /\ pc' = [pc EXCEPT ![t] = "init_done"]
    /\ UNCHANGED <<once, arcs, handle, made, readVal, gets, sing>>
    /\ UNCHANGED notSing

\* The closure returns and call_once marks ONCE complete.
InitDone(t) ==
    /\ pc[t] = "init_done"
    /\ once' = "COMPLETE"
    /\ pc' = [pc EXCEPT ![t] = "deref"]
    /\ UNCHANGED <<SINGLETON, boxes, arcs, handle, made, readVal, gets, sing>>
    /\ UNCHANGED notSing

\* (*SINGLETON).clone(): the caller's handle shares the boxed reader's Arc.
\* Dereferencing a null SINGLETON is undefined behaviour: the thread may
\* crash, or go on with any handle at all.
Deref(t) ==
    /\ pc[t] = "deref"
    /\ IF SINGLETON # 0
       THEN /\ handle' = [handle EXCEPT ![t] = boxes[SINGLETON].inner]
            /\ pc' = [pc EXCEPT ![t] = "idle"]
            /\ UNCHANGED sing
       ELSE /\ SingNote("nullDeref", TRUE)
            /\ \E h \in 0..Len(arcs) : handle' = [handle EXCEPT ![t] = h]
            /\ \E p \in {"idle", "crashed"} : pc' = [pc EXCEPT ![t] = p]
    /\ UNCHANGED <<once, SINGLETON, boxes, arcs, made, readVal, gets>>
    /\ UNCHANGED notSing

Lock_NoExclusion(t) ==
    /\ pc[t] = "idle"
    /\ handle[t] # 0
    /\ arcs' = [arcs EXCEPT ![handle[t]].owner = t]
    /\ pc' = [pc EXCEPT ![t] = "locked"]
    /\ UNCHANGED <<once, SINGLETON, boxes, handle, made, readVal, gets, sing>>
    /\ UNCHANGED notSing

\* handle.inner.lock().unwrap(): blocks while another thread owns the mutex.
Lock(t) ==
    /\ pc[t] = "idle"
    /\ handle[t] # 0
    /\ arcs[handle[t]].owner = 0
    /\ arcs' = [arcs EXCEPT ![handle[t]].owner = t]
    /\ pc' = [pc EXCEPT ![t] = "locked"]
    /\ UNCHANGED <<once, SINGLETON, boxes, handle, made, readVal, gets, sing>>
    /\ UNCHANGED notSing

\* *data = v, through the guard.
Write(t, v) ==
    /\ pc[t] = "locked"
    /\ arcs' = [arcs EXCEPT ![handle[t]].value = v]
    /\ sing' = [sing EXCEPT !.lastWritten = v, !.lastWriter = t]
    /\ UNCHANGED <<once, SINGLETON, boxes, pc, handle, made, readVal, gets>>
    /\ UNCHANGED notSing

\* *data, read through the guard.
Read(t) ==
    /\ pc[t] = "locked"
    /\ readVal' = [readVal EXCEPT ![t] = arcs[handle[t]].value]
    /\ pc' = [pc EXCEPT ![t] = "read_done"]
    /\ UNCHANGED <<once, SINGLETON, boxes, arcs, handle, made, gets, sing>>
    /\ UNCHANGED notSing

\* *data = <the value just read> + 1, through the guard: the write half of a
\* read-modify-write whose read half is Read.
WriteBack(t) ==
    /\ pc[t] = "read_done"
    /\ sing.incs < MaxIncs
    /\ arcs' = [arcs EXCEPT ![handle[t]].value = readVal[t] + 1]
    /\ sing' = [sing EXCEPT !.lastWritten = readVal[t] + 1, !.lastWriter = t,
                            !.incs = @ + 1]
    /\ pc' = [pc EXCEPT ![t] = "locked"]
    /\ UNCHANGED <<once, SINGLETON, boxes, handle, made, readVal, gets>>
    /\ UNCHANGED notSing

\* The guard goes out of scope.
Unlock(t) ==
    /\ pc[t] \in {"locked", "read_done"}
    /\ arcs' = [arcs EXCEPT ![handle[t]].owner = 0]
    /\ pc' = [pc EXCEPT ![t] = "idle"]
    /\ UNCHANGED <<once, SINGLETON, boxes, handle, made, readVal, gets, sing>>
    /\ UNCHANGED notSing

\* C3: when several threads call get_instance concurrently the initialisation
\* closure runs exactly once, every caller (also one that lost the race) gets
\* a handle to that one fully initialised instance, no second instance is
\* created, and SINGLETON is never dereferenced while null.
C3_InitialisedOnce ==
    /\ sing.initRuns <= 1
    /\ Len(arcs) <= 1
    /\ Len(boxes) <= 1
    /\ ~sing.nullDeref
    /\ \A t \in Threads :
          /\ pc[t] = "deref" => SINGLETON # 0 /\ once = "COMPLETE"
          /\ handle[t] # 0 =>
                /\ sing.initRuns = 1
                /\ once = "COMPLETE"
                /\ SINGLETON # 0
                /\ handle[t] = boxes[SINGLETON].inner

\* C3's case: a thread that found the closure running, waited, and now holds
\* a handle, as does another thread.
C3_Witness ==
    \E t, u \in Threads :
        /\ t # u
        /\ sing.waited[t]
        /\ handle[t] # 0
        /\ handle[u] # 0

\* C4: every get_instance call returns a handle to the same value: whatever
\* was written last under the lock, through any handle, is what a locked read
\* through any handle returns.
C4_SameValueThroughEveryHandle ==
    /\ \A t, u \in Threads :
          handle[t] # 0 /\ handle[u] # 0 => handle[t] = handle[u]
    /\ \A t \in Threads :
          pc[t] = "read_done" /\ sing.lastWriter # 0
             => readVal[t] = sing.lastWritten

\* C4's case: a thread reads, through the handle of its first get_instance
\* call, the value another thread wrote through the handle of its second.
C4_Witness ==
    \E t, u \in Threads :
        /\ t # u
        /\ pc[t] = "read_done"
        /\ gets[t] = 1
        /\ gets[u] = 2
        /\ sing.lastWriter = u
        /\ sing.lastWritten = 2
        /\ readVal[t] = 2

\* The threads that hold a MutexGuard.
Holders == {t \in Threads : pc[t] \in {"locked", "read_done"}}

\* C11: the threads that reach the singleton's value through get_instance
\* handles do so under one shared mutex, at most one thread holds the lock
\* at any time, and no read-modify-write update made under the lock is
\* lost: the value counts every completed update.
C11_LockedUpdatesNotLost ==
    /\ \A t, u \in Threads :
          handle[t] # 0 /\ handle[u] # 0 => handle[t] = handle[u]
    /\ Cardinality(Holders) <= 1
    /\ \A t \in Holders : arcs[handle[t]].owner = t
    /\ \A a \in 1..Len(arcs) :
          /\ arcs[a].owner # 0 => arcs[a].owner \in Holders
          /\ arcs[a].value = sing.incs

\* C11's case: a thread holds the lock between the read and the write of its
\* update, over the value another thread's update left, and that other
\* thread, handle in hand, is kept out.
C11_Witness ==
    \E t, u \in Threads :
        /\ t # u
        /\ sing.incs = 1
        /\ sing.lastWriter = u
        /\ pc[t] = "read_done"
        /\ readVal[t] = 1
        /\ pc[u] = "idle"
        /\ handle[u] # 0
        /\ ~ENABLED Lock(u)

-----------------------------------------------------------------------------
(* flyweight.rs *)

\* Bound: number of calls made on the shops.
MaxShopOps == 4

\* f32: a value is NaN or a number.  The numbers used are small integers,
\* which f32 holds and adds, subtracts and multiplies exactly.
NaN == [nan |-> TRUE, v |-> 0]
F(n) == [nan |-> FALSE, v |-> n]

\* f32 `>`: false when either side is NaN.
FGt(a, b) == ~a.nan /\ ~b.nan /\ a.v > b.v

\* f32 `<=`: false when either side is NaN.
FLe(a, b) == ~a.nan /\ ~b.nan /\ a.v <= b.v

\* f32 `+`, `-` and `*`: NaN when either side is NaN.
FAdd(a, b) == IF a.nan \/ b.nan THEN NaN ELSE F(a.v + b.v)
FSub(a, b) == IF a.nan \/ b.nan THEN NaN ELSE F(a.v - b.v)
FMul(a, b) == IF a.nan \/ b.nan THEN NaN ELSE F(a.v * b.v)

\* The test's set-up: one menu shared by two shops, and a shop on a menu of
\* its own.
MenuIds == {1, 2}
ShopIds == {1, 2, 3}
MenuGiven(s) == IF s = 3 THEN 2 ELSE 1

\* The arguments of the calls.
Names == {"blue", "white"}
Costs == {F(1), F(2)}
StockQuantities == {F(2), F(3)}
SellQuantities == {F(-1), F(2), F(3), NaN}

\* Menu::new
MenuNew == <<>>

\* CheeseBrand::new
CheeseBrandNew(name, cost, quantity) ==
    [name |-> name, cost |-> cost, quantity |-> quantity]

\* CheeseShop::new
CheeseShopNew(menu) == [menu |-> menu, units_sold |-> F(0), revenue |-> F(0)]

\* Menu::add: the entry is inserted when absent, then its cost and quantity
\* are set.
MenuAdd(items, name, cost, quantity) ==
    LET cheese == CheeseBrandNew(name, cost, quantity)
        entry == IF name \in DOMAIN items THEN items[name] ELSE cheese
    IN [n \in DOMAIN items \cup {name} |->
          IF n = name THEN [entry EXCEPT !.cost = cost, !.quantity = quantity]
          ELSE items[n]]

CheeseBrandReduceQuantity_NoSubtract(ch, quantity) ==
    IF FGt(quantity, ch.quantity) THEN [ok |-> FALSE, brand |-> ch]
    ELSE [ok |-> TRUE, brand |-> ch]

CheeseBrandReduceQuantity_SubtractFirst(ch, quantity) ==
    [ok |-> ~FGt(quantity, ch.quantity),
     brand |-> [ch EXCEPT !.quantity = FSub(@, quantity)]]

\* CheeseBrand::reduce_quantity, on &mut self: the result and the brand as
\* the call leaves it.
CheeseBrandReduceQuantity(ch, quantity) ==
    IF FGt(quantity, ch.quantity) THEN [ok |-> FALSE, brand |-> ch]
    ELSE [ok |-> TRUE, brand |-> [ch EXCEPT !.quantity = FSub(@, quantity)]]

\* Menu::sell: the result, the cost it returns when Ok, and the items as the
\* call leaves them.
MenuSell(items, name, quantity) ==
    IF name \in DOMAIN items
    THEN LET r == CheeseBrandReduceQuantity(items[name], quantity)
         IN [ok |-> r.ok, cost |-> r.brand.cost,
             items |-> [items EXCEPT ![name] = r.brand]]
    ELSE [ok |-> FALSE, cost |-> F(0), items |-> items]

CheeseShopSell_RevenueIsCost(shop, items, name, quantity) ==
    LET r == MenuSell(items, name, quantity)
    IN IF ~r.ok THEN [ok |-> FALSE, shop |-> shop, items |-> r.items]
       ELSE [ok |-> TRUE,
             shop |-> [shop EXCEPT !.units_sold = FAdd(@, quantity),
                                   !.revenue = FAdd(@, r.cost)],
             items |-> r.items]

\* CheeseShop::sell: the result, and the shop and its menu's items as the
\* call leaves them.
CheeseShopSell(shop, items, name, quantity) ==
    LET r == MenuSell(items, name, quantity)
    IN IF ~r.ok THEN [ok |-> FALSE, shop |-> shop, items |-> r.items]
       ELSE [ok |-> TRUE,
             shop |-> [shop EXCEPT !.units_sold = FAdd(@, quantity),
                                   !.revenue = FAdd(@, FMul(r.cost, quantity))],
             items |-> r.items]

\* CheeseShop::total_units_sold
TotalUnitsSold(s) == shops[s].units_sold

\* CheeseShop::total_revenue
TotalRevenue(s) == shops[s].revenue

InitShop ==
    /\ menus = [m \in MenuIds |-> MenuNew]
    /\ shops = [s \in ShopIds |-> CheeseShopNew(MenuGiven(s))]
    /\ shopCall = [op |-> "none", shop |-> 0, name |-> "", quantity |-> F(0),
                   ok |-> FALSE]
    /\ shopOps = 0
    /\ stocker = [m \in MenuIds |-> [n \in Names |-> 0]]

\* shop.stock_cheese(name, cost, quantity)
StockCheese(s, name, cost, quantity) ==
    /\ shopOps < MaxShopOps
    /\ shopOps' = shopOps + 1
    /\ menus' = [menus EXCEPT ![shops[s].menu] = MenuAdd(@, name, cost, quantity)]
    /\ stocker' = [stocker EXCEPT ![shops[s].menu][name] = s]
    /\ shopCall' = [op |-> "stock_cheese", shop |-> s, name |-> name,
                    quantity |-> quantity, ok |-> TRUE]
    /\ UNCHANGED shops
    /\ UNCHANGED notShop

\* shop.sell(name, quantity)
Sell(s, name, quantity) ==
    /\ shopOps < MaxShopOps
    /\ shopOps' = shopOps + 1
    /\ LET r == CheeseShopSell(shops[s], menus[shops[s].menu], name, quantity)
       IN /\ shops' = [shops EXCEPT ![s] = r.shop]
          /\ menus' = [menus EXCEPT ![shops[s].menu] = r.items]
          /\ shopCall' = [op |-> "sell", shop |-> s, name |-> name,
                          quantity |-> quantity, ok |-> r.ok]
    /\ UNCHANGED stocker
    /\ UNCHANGED notShop

\* What a shop sees through its menu reference, in the items maps ms.
StockedIn(ms, s, n) == n \in DOMAIN ms[shops[s].menu]
AvailableIn(ms, s, n) == ms[shops[s].menu][n].quantity
CostIn(ms, s, n) == ms[shops[s].menu][n].cost

\* The shops created over the same Menu as shop s.
SameMenu(s) == {s2 \in ShopIds : shops[s2].menu = shops[s].menu}

\* C5: the shops created over one Menu share one stock per cheese name:
\* what one shop stocks is there for every one of them, a sale a shop asks for
\* within the shared stock succeeds whoever stocked it, and a successful sale
\* of quantity q by one shop reduces by q what every one of them can sell.
C5_SharedStock ==
    [][\A s \in ShopIds, n \in Names :
          shopCall'.shop = s /\ shopCall'.name = n =>
             /\ shopCall'.op = "stock_cheese" =>
                   \A s2 \in SameMenu(s) :
                      /\ StockedIn(menus', s2, n)
                      /\ AvailableIn(menus', s2, n) = shopCall'.quantity
             /\ shopCall'.op = "sell" /\ shopCall'.ok =>
                   \A s2 \in SameMenu(s) :
                      AvailableIn(menus', s2, n)
                         = FSub(AvailableIn(menus, s2, n), shopCall'.quantity)
             /\ ( /\ shopCall'.op = "sell"
                  /\ StockedIn(menus, s, n)
                  /\ FLe(shopCall'.quantity, AvailableIn(menus, s, n)) )
                   => shopCall'.ok
      ]_vars

\* C5's case: shop 2 has just sold cheese that shop 1 stocked, and shop 1 now
\* sees the reduced stock.
C5_Witness ==
    /\ shopCall.op = "sell"
    /\ shopCall.ok
    /\ shopCall.shop = 2
    /\ shopCall.quantity = F(2)
    /\ stocker[1][shopCall.name] = 1
    /\ AvailableIn(menus, 1, shopCall.name) = F(1)

\* C6: sell(name, q) returns Ok exactly when name has been stocked on the
\* menu and q is at most the quantity remaining for it, and
\* Err(OutOfStockError) otherwise.
C6_OkExactlyWhenInStock ==
    [][\A s \in ShopIds, n \in Names :
          shopCall'.op = "sell" /\ shopCall'.shop = s /\ shopCall'.name = n =>
             ( shopCall'.ok <=>
                  /\ StockedIn(menus, s, n)
                  /\ FLe(shopCall'.quantity, AvailableIn(menus, s, n)) )
      ]_vars

\* C7: a sell that returns OutOfStockError changes nothing: every menu
\* quantity and cost, and every shop's units_sold and revenue, are as before.
C7_FailedSellChangesNothing ==
    [][shopCall'.op = "sell" /\ ~shopCall'.ok => menus' = menus /\ shops' = shops
      ]_vars

\* C7's case: shop 1 is refused a cheese that is on the menu, because shop 2
\* sold part of the stock before.
C7_Witness ==
    /\ shopCall.op = "sell"
    /\ ~shopCall.ok
    /\ shopCall.shop = 1
    /\ shopCall.quantity = F(2)
    /\ StockedIn(menus, 1, shopCall.name)
    /\ AvailableIn(menus, 1, shopCall.name) = F(1)
    /\ TotalUnitsSold(2) = F(2)

\* C8: a successful sell(name, q) by a shop adds q to that shop's units_sold
\* and q times the cheese's current menu cost to its revenue; nothing else
\* changes any shop's units_sold or revenue, which start at zero, so
\* total_units_sold and total_revenue are the sums over the shop's own
\* successful sales.
C8_SalesAccumulate ==
    /\ \A s \in ShopIds : TotalUnitsSold(s) = F(0) /\ TotalRevenue(s) = F(0)
    /\ [][\A s \in ShopIds, n \in Names :
             IF /\ shopCall'.op = "sell" /\ shopCall'.ok
                /\ shopCall'.shop = s /\ shopCall'.name = n
             THEN /\ TotalUnitsSold(s)'
                       = FAdd(TotalUnitsSold(s), shopCall'.quantity)
                  /\ TotalRevenue(s)'
                       = FAdd(TotalRevenue(s),
                              FMul(shopCall'.quantity, CostIn(menus, s, n)))
             ELSE shopCall'.shop = s /\ shopCall'.name = n
                     => shops'[s] = shops[s]
         ]_vars
    /\ [][\A s \in ShopIds : shopCall'.shop # s => shops'[s] = shops[s]]_vars

\* C8's case: shop 2 has sold two units at cost 1 and two units at cost 2.
C8_Witness ==
    /\ shopCall.op = "sell"
    /\ shopCall.ok
    /\ shopCall.shop = 2
    /\ TotalUnitsSold(2) = F(4)
    /\ TotalRevenue(2) = F(6)

-----------------------------------------------------------------------------
(* chain_of_responsibility.rs *)

\* Bound: number of handlers in a chain.
MaxChain == 3

\* The arguments of Employee::new and PurchaseRequest::new.
Roles == {"manager", "director"}
Allowables == {0, 5, 12, 20}
Amounts == {0, 5, 12, 20, 25}
Purposes == {"desk repair", "company car"}

\* Employee::new; the successor is the next handler of the chain.
EmployeeNew(category, allowable) == [category |-> category, allowable |-> allowable]

\* PurchaseRequest::new
PurchaseRequestNew(amount, purpose) == [amount |-> amount, purpose |-> purpose]

\* The chains set_successor can build: each handler owns its successor, so a
\* chain is a finite list without sharing or cycles.
Chains ==
    UNION {[1..n -> {EmployeeNew(r, a) : r \in Roles, a \in Allowables}] :
              n \in 1..MaxChain}

\* A String is a sequence of pieces: a role, a purpose and a literal are one
\* piece each, a formatted number is one piece per digit.
Digit(d) == <<"0", "1", "2", "3", "4", "5", "6", "7", "8", "9">>[d + 1]

RECURSIVE Decimal(_)
\* Display for u32: the decimal digits, most significant first.
Decimal(n) ==
    IF n < 10 THEN <<Digit(n)>> ELSE Decimal(n \div 10) \o <<Digit(n % 10)>>

\* format!("{} will approve ${} for {}", role, amount, purpose)
FormatApproval(role, amount, purpose) ==
    <<role, " will approve $">> \o Decimal(amount) \o <<" for ", purpose>>

TooHigh == <<"Request amount is too high">>

Handles_Inclusive(e, req) == req.amount <= e.allowable

\* The test of process_request: request.get_amount() < self.get_allowable()
Handles(e, req) == req.amount < e.allowable

\* Employee::get_successor: the next handler's position, 0 for None.
GetSuccessor(i) == IF i < Len(chain) THEN i + 1 ELSE 0

InitChain ==
    /\ chain \in Chains
    /\ request \in {PurchaseRequestNew(a, p) : a \in Amounts, p \in Purposes}
    /\ chainPc = "ready"
    /\ cur = 0
    /\ reply = <<>>
    /\ handledBy = {}
    /\ forwarded = {}

\* No chain and no request: the other examples do not use this one.
IdleChain ==
    /\ chain = <<>>
    /\ request = PurchaseRequestNew(0, "")
    /\ chainPc = "idle"
    /\ cur = 0
    /\ reply = <<>>
    /\ handledBy = {}
    /\ forwarded = {}

\* The client calls process_request on the head of the chain.
ClientSends ==
    /\ chainPc = "ready"
    /\ chainPc' = "processing"
    /\ cur' = 1
    /\ UNCHANGED <<chain, request, reply, handledBy, forwarded>>
    /\ UNCHANGED notChain

HandlerApproves_AndPassesOn ==
    /\ chainPc = "processing"
    /\ Handles(chain[cur], request)
    /\ reply' = FormatApproval(chain[cur].category, request.amount, request.purpose)
    /\ handledBy' = handledBy \cup {cur}
    /\ IF GetSuccessor(cur) # 0
       THEN cur' = GetSuccessor(cur) /\ UNCHANGED chainPc
       ELSE chainPc' = "done" /\ UNCHANGED cur
    /\ UNCHANGED <<chain, request, forwarded>>
    /\ UNCHANGED notChain

\* process_request, first branch: the handler approves and returns.
HandlerApproves ==
    /\ chainPc = "processing"
    /\ Handles(chain[cur], request)
    /\ reply' = FormatApproval(chain[cur].category, request.amount, request.purpose)
    /\ handledBy' = handledBy \cup {cur}
    /\ chainPc' = "done"
    /\ UNCHANGED <<chain, request, cur, forwarded>>
    /\ UNCHANGED notChain

\* process_request, else branch with Some(successor): the successor's
\* process_request runs, and its String is returned unchanged.
HandlerPassesOn ==
    /\ chainPc = "processing"
    /\ ~Handles(chain[cur], request)
    /\ GetSuccessor(cur) # 0
    /\ cur' = GetSuccessor(cur)
    /\ forwarded' = forwarded \cup {cur}
    /\ UNCHANGED <<chain, request, chainPc, reply, handledBy>>
    /\ UNCHANGED notChain

\* process_request, else branch with None.
HandlerRefuses ==
    /\ chainPc = "processing"
    /\ ~Handles(chain[cur], request)
    /\ GetSuccessor(cur) = 0
    /\ reply' = TooHigh
    /\ chainPc' = "done"
    /\ UNCHANGED <<chain, request, cur, handledBy, forwarded>>
    /\ UNCHANGED notChain

RECURSIVE DecimalValue(_)
\* The number a sequence of decimal digits denotes.
DecimalValue(ds) ==
    IF ds = <<>> THEN 0
    ELSE 10 * DecimalValue(SubSeq(ds, 1, Len(ds) - 1))
            + (CHOOSE d \in 0..9 : Digit(d) = ds[Len(ds)])

\* The handlers whose allowable is strictly greater than the request's amount.
Able == {i \in 1..Len(chain) : chain[i].allowable > request.amount}

-----------------------------------------------------------------------------
Init == InitPost /\ InitSingleton /\ InitShop /\ IdleChain

InitWithChain == InitPost /\ InitSingleton /\ InitShop /\ InitChain

NextPost ==
    \/ \E text \in Texts : AddText(text)
    \/ RequestReview
    \/ Approve

SpecPost == Init /\ [][NextPost]_vars

NextSingleton ==
    \E t \in Threads :
        \/ GetInstanceCallOnce(t)
        \/ OnceWake(t)
        \/ InitMake(t)
        \/ InitStore(t)
        \/ InitDone(t)
        \/ Deref(t)
        \/ Lock(t)
        \/ \E v \in Values : Write(t, v)
        \/ Read(t)
        \/ Unlock(t)

SpecSingleton == Init /\ [][NextSingleton]_vars

\* Threads that only update the value by read-modify-write under the lock.
NextSingletonUpdates ==
    \E t \in Threads :
        \/ GetInstanceCallOnce(t)
        \/ OnceWake(t)
        \/ InitMake(t)
        \/ InitStore(t)
        \/ InitDone(t)
        \/ Deref(t)
        \/ Lock(t)
        \/ Read(t)
        \/ WriteBack(t)
        \/ Unlock(t)

SpecSingletonUpdates == Init /\ [][NextSingletonUpdates]_vars

NextShop ==
    \E s \in ShopIds, name \in Names :
        \/ \E cost \in Costs, quantity \in StockQuantities :
              StockCheese(s, name, cost, quantity)
        \/ \E quantity \in SellQuantities : Sell(s, name, quantity)

SpecShop == Init /\ [][NextShop]_vars

NextChain ==
    \/ ClientSends
    \/ HandlerApproves
    \/ HandlerPassesOn
    \/ HandlerRefuses

SpecChain == InitWithChain /\ [][NextChain]_vars

====
